---- MODULE Spec2Model ----
(***************************************************************************)
(* Model of the feature-engineering estimators of nytf:                    *)
(*   - HolidayFeaturesExtractor (python/nytf/holidays_extractor.py)        *)
(*   - BasicTemporalFeatures    (python/nytf/utils.py)                     *)
(*   - SegmentToCircle          (python/nytf/utils.py)                     *)
(* and of its functions:                                                   *)
(*   - flying_distance_AB, L1_distance_AB (python/nytf/nytf_geo.py and     *)
(*     the earlier copy src/NYCTF_geo.py)                                  *)
(*   - load_dataframe           (python/nytf/utils.py)                     *)
(*   - decompose_data_to_arrays_list (python/nytf/utils2.py)               *)
(*                                                                         *)
(* Time is counted in ticks.  pandas counts in nanoseconds and             *)
(* get_timestamp divides by 10 ** 9; the model keeps the floor division    *)
(* but scales the sub-second resolution to TicksPerSecond ticks so that a  *)
(* day fits the checker's integers.  Row labels of a frame are 1..n here   *)
(* where pandas numbers them 0..n-1.                                       *)
(***************************************************************************)
EXTENDS Integers, Sequences, FiniteSets, TLC

\* ------------------------------------------------------------------ bounds
NumDays == 3
MaxLen == 2
MaxFitLen == 3
MaxFeatures == 2
MaxRadius == 2
MaxSegment == 3
MaxRows == 1
MaxDim == 2

\* --------------------------------------------------------------- constants
TicksPerSecond == 2
SecondsPerHour == 3600
HoursPerDay == 24
NoonOffsetHours == 12

TicksPerHour == SecondsPerHour * TicksPerSecond
TicksPerDay == HoursPerDay * TicksPerHour

\* ------------------------------------------------------------ input space
Days == 0..(NumDays - 1)
\* times of day of the records: 06:00:00.5 and 18:00:00
Morning == 6 * TicksPerHour + 1
Evening == 18 * TicksPerHour
TimesOfDay == {Morning, Evening}
Dates == {d * TicksPerDay + t : d \in Days, t \in TimesOfDay}
\* values of the interest column
Values == {0, 2}
HolidayNames == {"A", "B"}
Labels == HolidayNames \cup {"normal"}

\* missing values: NaT for a date, NaN for a label, a score or a number
NaT == <<>>
NaN == <<>>
NoLabel == "NaN"
Some(v) == <<v>>
\* what astype("int64") // 10 ** 9 leaves of a NaT timedelta
IntNaT == <<0, 0>>

\* the sample records of a fitted frame: every day has a morning record of
\* value 0 and an evening record of value 2
Records == {[date |-> d * TicksPerDay + Morning, value |-> 0] : d \in Days}
           \cup {[date |-> d * TicksPerDay + Evening, value |-> 2] : d \in Days}
\* a frame of the main specification lists its rows in date order, without
\* a duplicate row
InDateOrder(f) == \A i \in 1..(Len(f) - 1) : f[i].date < f[i + 1].date
Frames == {f \in UNION {[1..n -> Records] : n \in 1..MaxLen} : InDateOrder(f)}
\* the frames given to transform: a date column, no interest column
DateFrames ==
  {f \in UNION {[1..n -> [date : Dates]] : n \in 1..MaxLen} : InDateOrder(f)}
\* the frames whose index is not the default one: distinct labels in any order,
\* with or without gaps
IndexLabels == 0..MaxLen
IndexedFrames ==
  {f \in UNION {[1..n -> [date : Dates, index : IndexLabels]] : n \in 1..MaxLen} :
     /\ InDateOrder(f)
     /\ \A i, j \in DOMAIN f : i # j => f[i].index # f[j].index}
\* a training frame with an evening record for every day
SpanFrame == [i \in 1..NumDays |-> [date |-> (i - 1) * TicksPerDay + Evening, value |-> 2]]
\* the frames of the fit specification: rows in any order, duplicates included
FitFrames == UNION {[1..n -> Records] : n \in 1..MaxFitLen}

\* ------------------------------------------------------ rational numbers
\* a score is a fraction <<n, d>> in lowest terms with d > 0; a division by
\* zero gives <<1, 0>> (inf), <<-1, 0>> (-inf) or <<0, 0>> (nan) as numpy does
RECURSIVE GCD(_, _)
GCD(a, b) == IF b = 0 THEN a ELSE GCD(b, a % b)

Abs(x) == IF x < 0 THEN -x ELSE x
Sign(x) == IF x < 0 THEN -1 ELSE IF x > 0 THEN 1 ELSE 0

Frac(n, d) ==
  IF d = 0 THEN <<Sign(n), 0>>
  ELSE LET g == GCD(Abs(n), Abs(d))
       IN  <<Sign(d) * (n \div g), Abs(d) \div g>>

\* a / b for two finite fractions (means), as numpy float division does it
FracDiv(a, b) ==
  IF b[1] = 0
  THEN IF a[1] = 0 THEN <<0, 0>> ELSE <<Sign(a[1]), 0>>
  ELSE Frac(a[1] * b[2], a[2] * b[1])

IsFinite(s) == Len(s) = 2 /\ s[2] # 0
One == <<1, 1>>

RECURSIVE SumSeq(_)
SumSeq(s) == IF s = <<>> THEN 0 ELSE s[1] + SumSeq(Tail(s))


\* ------------------------------------------- HolidayFeaturesExtractor
VARIABLES
  holidays,        \* self._holidays: the calendar, day -> label or NoLabel
  days_ref_df,     \* self._days_ref_df, Unset until _fit assigns it
  holiday_scores,  \* self._holiday_scores, None until _fit assigns it
  holiday_info,    \* the holiday_info frame of the last call
  out,             \* what the last call returned or raised
  lastOp,          \* the last call
  train_X,         \* the frame this run gives to fit and fit_transform
  test_X           \* the frame this run gives to transform

Unset == <<>>
None == <<>>

\* BasicTemporalFeatures (modelled below)
VARIABLES
  btf,          \* the BasicTemporalFeatures instance, NoEstimator until constructed
  btf_out,      \* what the last constructor or transform call returned or raised
  feature_arg,  \* the feature_names this run gives the constructor
  instant       \* the pickup_datetime of the one-row frame this run transforms

btf_vars == <<btf, btf_out, feature_arg, instant>>
NoEstimator == <<>>

\* the distance functions of nytf_geo.py and of src/NYCTF_geo.py (modelled below)
VARIABLES
  geo_call,  \* the arguments this run gives the distance functions
  geo_out    \* what the last distance call returned or raised

geo_vars == <<geo_call, geo_out>>

\* SegmentToCircle (modelled below)
VARIABLES
  circle,       \* the SegmentToCircle instance: segment_min and segment_max
  circle_data,  \* the column this run gives SegmentToCircle.transform
  circle_out    \* what the last SegmentToCircle.transform returned

circle_vars == <<circle, circle_data, circle_out>>

\* load_dataframe (modelled below)
VARIABLES
  load_call,  \* the arguments this run gives load_dataframe
  storage,    \* the files: the cloud bucket, data/processing and data/raw
  load_out    \* what the last load_dataframe call returned or raised

load_vars == <<load_call, storage, load_out>>

\* decompose_data_to_arrays_list (modelled below)
VARIABLES
  decompose_data,  \* the data this run gives decompose_data_to_arrays_list
  decompose_out    \* what the last call returned or raised

decompose_vars == <<decompose_data, decompose_out>>

other_vars == <<geo_vars, circle_vars, load_vars, decompose_vars>>
NoCall == <<>>

\* Series.dt.normalize: midnight of the timestamp's day
normalize(ts) == ts - (ts % TicksPerDay)

\* self._holidays.get(d)
holidays_get(cal, d) == cal[d \div TicksPerDay]

RECURSIVE SeqMax(_)
SeqMax(s) == IF Len(s) = 1 THEN s[1]
             ELSE LET m == SeqMax(Tail(s)) IN IF s[1] > m THEN s[1] ELSE m
RECURSIVE SeqMin(_)
SeqMin(s) == IF Len(s) = 1 THEN s[1]
             ELSE LET m == SeqMin(Tail(s)) IN IF s[1] < m THEN s[1] ELSE m

DateCol(X) == [i \in DOMAIN X |-> X[i].date]

\* pd.date_range(start, end, normalize=True), one row a day
date_range(min_date, max_date) ==
  [i \in 1..((normalize(max_date) - normalize(min_date)) \div TicksPerDay + 1)
     |-> normalize(min_date) + (i - 1) * TicksPerDay]

\* lines 40-47: the frame before the scan
days_ref_init(cal, min_date, max_date) ==
  LET dr == date_range(min_date, max_date)
  IN  [i \in DOMAIN dr |->
         [date |-> dr[i],
          holiday |-> IF holidays_get(cal, dr[i]) = NoLabel THEN "normal"
                      ELSE holidays_get(cal, dr[i]),
          prev_holiday_date |-> NaT, prev_holiday |-> NoLabel,
          next_holiday_date |-> NaT, next_holiday |-> NoLabel]]

\* the slice lo:hi taken without its first row
set_next_exclusive(df, lo, hi, hol_date, hol) ==
  [i \in DOMAIN df |->
     IF lo < i /\ i <= hi
     THEN [df[i] EXCEPT !.next_holiday_date = hol_date, !.next_holiday = hol]
     ELSE df[i]]

\* days_ref.loc[lo:hi, ["next_holiday_date", "next_holiday"]] = hol_info
set_next(df, lo, hi, hol_date, hol) ==
  [i \in DOMAIN df |->
     IF lo <= i /\ i <= hi
     THEN [df[i] EXCEPT !.next_holiday_date = hol_date, !.next_holiday = hol]
     ELSE df[i]]

\* days_ref.loc[idx, ["prev_holiday_date", "prev_holiday"]] = hol_info
set_prev(df, idx, hol_date, hol) ==
  [df EXCEPT ![idx].prev_holiday_date = hol_date, ![idx].prev_holiday = hol]

\* one iteration of the scan of lines 53-75
scan_step(st, idx) ==
  LET row == st.df[idx]
  IN  IF row.holiday = "normal"
      THEN IF st.past_holiday = NoLabel
           THEN st
           ELSE [st EXCEPT !.df = set_prev(st.df, idx, st.past_holiday_date, st.past_holiday)]
      ELSE LET first == st.past_holiday = NoLabel
               ph == IF first THEN row.holiday ELSE st.past_holiday
               phd == IF first THEN Some(row.date) ELSE st.past_holiday_date
               df1 == set_prev(st.df, idx, phd, ph)
               df2 == set_next(df1, st.no_holiday_last_index, idx, Some(row.date), row.holiday)
           IN  [df |-> df2, past_holiday |-> row.holiday,
                past_holiday_date |-> Some(row.date), no_holiday_last_index |-> idx]

RECURSIVE scan(_, _)
scan(st, idx) ==
  IF idx > Len(st.df) THEN st ELSE scan(scan_step(st, idx), idx + 1)

\* HolidayFeaturesExtractor._get_days_ref
get_days_ref(cal, min_date, max_date) ==
  LET st0 == [df |-> days_ref_init(cal, min_date, max_date),
              past_holiday |-> NoLabel, past_holiday_date |-> NaT,
              no_holiday_last_index |-> 1]
      st == scan(st0, 1)
  IN  set_next(st.df, st.no_holiday_last_index, Len(st.df),
               st.past_holiday_date, st.past_holiday)


\* add_noon without the offset
add_noon_none(d) == d

\* date + pd.Timedelta(hours=12), NaT staying NaT
add_noon(d) == IF d = NaT THEN NaT ELSE Some(d[1] + NoonOffsetHours * TicksPerHour)

\* line 30: days_ref["date"] = days_ref["date"].dt.normalize(), in place
normalize_days_ref(days_ref) ==
  [i \in DOMAIN days_ref |-> [days_ref[i] EXCEPT !.date = normalize(@)]]

\* merge_key rounding to the nearest midnight instead of truncating
merge_key_round(date) == normalize(date + (TicksPerDay \div 2))

\* the key of a record in the left merge of line 31
merge_key(date) == normalize(date)

\* one row of the left merge of lines 31-35
holiday_info_row(date, days_ref) ==
  LET hits == {i \in DOMAIN days_ref : days_ref[i].date = merge_key(date)}
  IN  IF hits = {}
      THEN [date |-> date, holiday |-> NoLabel,
            prev_holiday_date |-> NaT, prev_holiday |-> NoLabel,
            next_holiday_date |-> NaT, next_holiday |-> NoLabel]
      ELSE LET r == days_ref[CHOOSE i \in hits : TRUE]
           IN  [date |-> date, holiday |-> r.holiday,
                prev_holiday_date |-> add_noon(r.prev_holiday_date),
                prev_holiday |-> r.prev_holiday,
                next_holiday_date |-> add_noon(r.next_holiday_date),
                next_holiday |-> r.next_holiday]

\* HolidayFeaturesExtractor._get_holiday_info: the merged frame
get_holiday_info(date_col, days_ref) ==
  [i \in DOMAIN date_col |-> holiday_info_row(date_col[i], normalize_days_ref(days_ref))]

\* days_ref_after_lookup with the noon offset written into the table
days_ref_with_noon(days_ref) ==
  [i \in DOMAIN days_ref |->
     [days_ref[i] EXCEPT !.date = normalize(@),
                         !.prev_holiday_date = add_noon(@),
                         !.next_holiday_date = add_noon(@)]]

\* what _get_holiday_info leaves in the days_ref it was given
days_ref_after_lookup(days_ref) == normalize_days_ref(days_ref)

\* the values of the rows of X whose holiday is l, in row order
RECURSIVE group_values(_, _, _, _)
group_values(X, info, l, i) ==
  IF i > Len(X) THEN <<>>
  ELSE (IF info[i].holiday = l THEN <<X[i].value>> ELSE <<>>)
       \o group_values(X, info, l, i + 1)

\* group_means summing each group instead of averaging it
group_sums(X, info) ==
  [l \in {info[i].holiday : i \in DOMAIN info} \ {NoLabel} |->
     Frac(SumSeq(group_values(X, info, l, 1)), 1)]

\* line 98: df_to_group.groupby("holiday").mean()
group_means(X, info) ==
  [l \in {info[i].holiday : i \in DOMAIN info} \ {NoLabel} |->
     LET vs == group_values(X, info, l, 1) IN Frac(SumSeq(vs), Len(vs))]

\* normalize_scores leaving the group means as they are
normalize_scores_raw(means) == means

\* line 99: self._holiday_scores / self._holiday_scores.loc["normal"]
normalize_scores(means) ==
  [l \in DOMAIN means |-> FracDiv(means[l], means["normal"])]

\* fit_result dividing by a missing "normal" row as by NaN instead of raising
fit_result_nan(cal, X) ==
  LET dr0 == get_days_ref(cal, SeqMin(DateCol(X)), SeqMax(DateCol(X)))
      info == get_holiday_info(DateCol(X), dr0)
      means == group_means(X, info)
  IN  [days_ref_df |-> days_ref_after_lookup(dr0),
       holiday_scores |-> IF "normal" \in DOMAIN means THEN normalize_scores(means)
                          ELSE [l \in DOMAIN means |-> <<0, 0>>],
       holiday_info |-> info, error |-> "none"]

\* HolidayFeaturesExtractor._fit: the attributes it leaves, the frame it
\* returns and the error it raises (.loc["normal"] of a table without that row)
fit_result(cal, X) ==
  LET dr0 == get_days_ref(cal, SeqMin(DateCol(X)), SeqMax(DateCol(X)))
      info == get_holiday_info(DateCol(X), dr0)
      dr == days_ref_after_lookup(dr0)
      means == group_means(X, info)
  IN  IF "normal" \in DOMAIN means
      THEN [days_ref_df |-> dr, holiday_scores |-> normalize_scores(means),
            holiday_info |-> info, error |-> "none"]
      ELSE [days_ref_df |-> dr, holiday_scores |-> means,
            holiday_info |-> info, error |-> "KeyError"]

\* score_of filling a missing score with 0
score_of_zero(scores, l) == IF l \in DOMAIN scores THEN scores[l] ELSE <<0, 1>>

\* a left merge on the score table's index
score_of(scores, l) == IF l \in DOMAIN scores THEN scores[l] ELSE NaN

\* get_timestamp: astype("int64") // 10 ** 9
get_timestamp(delta) == IF delta = NaT THEN IntNaT ELSE Some(delta[1] \div TicksPerSecond)

\* lines 130-131: the timedeltas, NaT when the holiday date is
prev_delta(row) == IF row.prev_holiday_date = NaT THEN NaT
                   ELSE Some(row.date - row.prev_holiday_date[1])
next_delta(row) == IF row.next_holiday_date = NaT THEN NaT
                   ELSE Some(row.next_holiday_date[1] - row.date)

\* the five HOLIDAY_EXTRACTED_FEATURES of one row of holiday_features
holiday_features(scores, row) ==
  [holiday_score |-> score_of(scores, row.holiday),
   next_holiday_dist |-> get_timestamp(next_delta(row)),
   next_holiday_score |-> score_of(scores, row.next_holiday),
   prev_holiday_dist |-> get_timestamp(prev_delta(row)),
   prev_holiday_score |-> score_of(scores, row.prev_holiday)]

\* the index label of row i of X: the "index" field when the frame carries
\* labels of its own, the position (RangeIndex, from 0) otherwise
index_label(X, i) == IF "index" \in DOMAIN X[i] THEN X[i].index ELSE i - 1

\* what assign leaves in a row whose label is not in the index of holiday_features
missing_features ==
  [holiday_score |-> NaN, next_holiday_dist |-> NaN, next_holiday_score |-> NaN,
   prev_holiday_dist |-> NaN, prev_holiday_score |-> NaN]

\* lines 127-136 for row i of X: holiday_features is indexed 0..n-1 by the
\* merge, the subtractions of lines 130-131 and assign align on index labels
assigned_features(X, scores, info, i) ==
  LET k == index_label(X, i) + 1
  IN  IF k \in DOMAIN info
      THEN holiday_features(scores, [info[k] EXCEPT !.date = X[i].date])
      ELSE missing_features

\* HolidayFeaturesExtractor._transform: X.assign(**holiday_features[...])
transform_rows(X, scores, info) ==
  [i \in DOMAIN X |-> X[i] @@ assigned_features(X, scores, info, i)]

\* HolidayFeaturesExtractor.transform on a fitted extractor
transform_result(X, days_ref, scores) ==
  LET info == get_holiday_info(DateCol(X), days_ref)
  IN  [days_ref_df |-> days_ref_after_lookup(days_ref),
       holiday_info |-> info,
       out |-> [status |-> "ok", rows |-> transform_rows(X, scores, info)]]

\* fit_transform_out scoring with the group means before their normalisation
fit_transform_out_raw(X, r) ==
  IF r.error = "none"
  THEN [status |-> "ok",
        rows |-> transform_rows(X, group_means(X, r.holiday_info), r.holiday_info)]
  ELSE [status |-> r.error, rows |-> <<>>]

\* HolidayFeaturesExtractor.fit_transform: what it returns, given what _fit left
fit_transform_out(X, r) ==
  IF r.error = "none"
  THEN [status |-> "ok", rows |-> transform_rows(X, r.holiday_scores, r.holiday_info)]
  ELSE [status |-> r.error, rows |-> <<>>]

\* the name the calendar gives day d when d is a holiday
HolidayName(d) == IF d % 2 = 0 THEN "A" ELSE "B"
\* holidays.CountryHoliday(country, state): which days are holidays
Calendars == {[d \in Days |-> IF d \in H THEN HolidayName(d) ELSE NoLabel] : H \in SUBSET Days}

hol_vars == <<holidays, days_ref_df, holiday_scores, holiday_info, out, lastOp,
              train_X, test_X>>
vars == <<hol_vars, btf_vars, other_vars>>

\* HolidayFeaturesExtractor.__init__
Constructed ==
  /\ days_ref_df = Unset
  /\ holiday_scores = None
  /\ holiday_info = <<>>
  /\ out = [status |-> "none", rows |-> <<>>]
  /\ lastOp = "init"
  /\ btf = NoEstimator
  /\ btf_out = [status |-> "none"]

\* the runs of the holiday extractor build no BasicTemporalFeatures
NoTemporalRun == feature_arg = <<>> /\ instant = <<>>

\* ... and call no distance function, no SegmentToCircle, no load_dataframe
NoGeoRun == geo_call = NoCall /\ geo_out = NoCall
NoCircleRun == circle = NoCall /\ circle_data = NoCall /\ circle_out = NoCall
NoLoadRun == load_call = NoCall /\ storage = NoCall /\ load_out = NoCall
NoDecomposeRun == decompose_data = NoCall /\ decompose_out = NoCall

\* a run without any HolidayFeaturesExtractor or BasicTemporalFeatures call
NoEstimatorRun ==
  /\ holidays = [d \in Days |-> NoLabel]
  /\ train_X = <<>>
  /\ test_X = <<>>
  /\ Constructed
  /\ NoTemporalRun

\* a run: a calendar, a frame to fit and a frame to transform
Init ==
  /\ holidays \in Calendars
  /\ train_X \in Frames
  /\ test_X \in DateFrames
  /\ Constructed
  /\ NoTemporalRun
  /\ NoGeoRun
  /\ NoCircleRun
  /\ NoLoadRun
  /\ NoDecomposeRun

\* HolidayFeaturesExtractor.fit
Fit ==
  /\ \E r \in {fit_result(holidays, train_X)} :
      /\ days_ref_df' = r.days_ref_df
      /\ holiday_scores' = r.holiday_scores
      /\ holiday_info' = <<>>
      /\ out' = [status |-> IF r.error = "none" THEN "self" ELSE r.error, rows |-> <<>>]
  /\ lastOp' = "fit"
  /\ UNCHANGED <<holidays, train_X, test_X, btf_vars, other_vars>>

\* HolidayFeaturesExtractor.transform
Transform ==
  /\ lastOp' = "transform"
  /\ UNCHANGED <<holidays, train_X, test_X, btf_vars, other_vars>>
  /\ IF days_ref_df = Unset
     THEN /\ out' = [status |-> "AttributeError", rows |-> <<>>]
          /\ holiday_info' = <<>>
          /\ UNCHANGED <<days_ref_df, holiday_scores>>
     ELSE \E r \in {transform_result(test_X, days_ref_df, holiday_scores)} :
              /\ days_ref_df' = r.days_ref_df
              /\ holiday_info' = r.holiday_info
              /\ out' = r.out
              /\ UNCHANGED holiday_scores

\* HolidayFeaturesExtractor.fit_transform
FitTransform ==
  /\ \E r \in {fit_result(holidays, train_X)} :
      /\ days_ref_df' = r.days_ref_df
      /\ holiday_scores' = r.holiday_scores
      /\ holiday_info' = r.holiday_info
      /\ out' = fit_transform_out(train_X, r)
  /\ lastOp' = "fit_transform"
  /\ UNCHANGED <<holidays, train_X, test_X, btf_vars, other_vars>>

Next ==
  \/ Fit
  \/ Transform
  \/ FitTransform

Spec == Init /\ [][Next]_vars

\* ---- runs that transform the dates of the frame they fit
DateOnly(X) == [i \in DOMAIN X |-> [date |-> X[i].date]]

InitFit ==
  /\ holidays \in Calendars
  /\ train_X \in FitFrames
  /\ test_X = DateOnly(train_X)
  /\ Constructed
  /\ NoTemporalRun
  /\ NoGeoRun
  /\ NoCircleRun
  /\ NoLoadRun
  /\ NoDecomposeRun

SpecFit == InitFit /\ [][Next]_vars

\* ---- runs that transform a frame with index labels of its own
InitIndexed ==
  /\ holidays \in Calendars
  /\ train_X = SpanFrame
  /\ test_X \in IndexedFrames
  /\ Constructed
  /\ NoTemporalRun
  /\ NoGeoRun
  /\ NoCircleRun
  /\ NoLoadRun
  /\ NoDecomposeRun

SpecIndexed == InitIndexed /\ [][Next]_vars

\* --------------------------------------------------- BasicTemporalFeatures
\* BasicTemporalFeatures.implemented_features()
implemented_features ==
  <<"timestamp", "minute", "hour", "day", "month", "year", "dayofweek",
    "dayofyear", "days_in_month", "is_leap_year", "day_progress",
    "week_progress", "month_progress", "year_progress">>

SeqToSet(s) == {s[i] : i \in DOMAIN s}

\* a name outside the implemented set
UnknownFeature == "weekofyear"
FeatureNames == SeqToSet(implemented_features) \cup {UnknownFeature}

\* the feature_names argument; the empty sequence stands for None and for []
FeatureLists == UNION {[1..n -> FeatureNames] : n \in 0..MaxFeatures}

\* add_prerequisites testing day_progress before the features that need it
add_prerequisites_day_first(requested) ==
  LET s0 == IF "day_progress" \in requested
            THEN requested \cup {"hour", "minute"} ELSE requested
      s1 == IF "year_progress" \in s0
            THEN s0 \cup {"day_progress", "dayofyear", "is_leap_year"} ELSE s0
      s2 == IF "month_progress" \in s1
            THEN s1 \cup {"day_progress", "day", "days_in_month"} ELSE s1
  IN  IF "week_progress" \in s2
      THEN s2 \cup {"day_progress", "dayofweek"} ELSE s2

\* lines 86-93: the prerequisites, added in this order
add_prerequisites(requested) ==
  LET s1 == IF "year_progress" \in requested
            THEN requested \cup {"day_progress", "dayofyear", "is_leap_year"}
            ELSE requested
      s2 == IF "month_progress" \in s1
            THEN s1 \cup {"day_progress", "day", "days_in_month"} ELSE s1
      s3 == IF "week_progress" \in s2
            THEN s2 \cup {"day_progress", "dayofweek"} ELSE s2
  IN  IF "day_progress" \in s3 THEN s3 \cup {"hour", "minute"} ELSE s3

\* line 98: the attributes read from the local datetime accessor
ExtractableAttributes ==
  {"minute", "hour", "day", "month", "year", "dayofweek", "dayofyear",
   "days_in_month", "is_leap_year"}

\* __init__ dropping the names it does not implement instead of raising
btf_init_lenient(feature_names) ==
  LET names == IF feature_names # <<>> THEN feature_names ELSE implemented_features
      to_compute == add_prerequisites(SeqToSet(names)) \cap SeqToSet(implemented_features)
  IN  [error |-> "none",
       requested |-> feature_names,
       feature_names |-> names,
       compute_timestamp |-> "timestamp" \in to_compute,
       compute_day_progress |-> "day_progress" \in to_compute,
       compute_week_progress |-> "week_progress" \in to_compute,
       compute_month_progress |-> "month_progress" \in to_compute,
       compute_year_progress |-> "year_progress" \in to_compute,
       attribute_to_extract |-> to_compute \cap ExtractableAttributes]

\* BasicTemporalFeatures.__init__: the instance, or the error it raises
btf_init(feature_names) ==
  LET names == IF feature_names # <<>> THEN feature_names ELSE implemented_features
      to_compute == add_prerequisites(SeqToSet(names))
  IN  IF to_compute \subseteq SeqToSet(implemented_features)
      THEN [error |-> "none",
            requested |-> feature_names,
            feature_names |-> names,
            compute_timestamp |-> "timestamp" \in to_compute,
            compute_day_progress |-> "day_progress" \in to_compute,
            compute_week_progress |-> "week_progress" \in to_compute,
            compute_month_progress |-> "month_progress" \in to_compute,
            compute_year_progress |-> "year_progress" \in to_compute,
            attribute_to_extract |-> to_compute \cap ExtractableAttributes]
      ELSE [error |-> "ValueError"]

\* ---- calendar arithmetic of the datetime accessor
IsLeapYear(y) == y % 4 = 0 /\ (y % 100 # 0 \/ y % 400 = 0)
DaysInYear(y) == IF IsLeapYear(y) THEN 366 ELSE 365
DaysInMonth(y, m) ==
  IF m = 2 THEN (IF IsLeapYear(y) THEN 29 ELSE 28)
  ELSE IF m \in {4, 6, 9, 11} THEN 30 ELSE 31

RECURSIVE DaysBeforeMonth(_, _)
DaysBeforeMonth(y, m) ==
  IF m = 1 THEN 0 ELSE DaysBeforeMonth(y, m - 1) + DaysInMonth(y, m - 1)

MonthOf(y, doy) ==
  CHOOSE m \in 1..12 :
    DaysBeforeMonth(y, m) < doy /\ doy <= DaysBeforeMonth(y, m) + DaysInMonth(y, m)

\* the leap years before year y, counted from year 1
LeapYearsBefore(y) == ((y - 1) \div 4) - ((y - 1) \div 100) + ((y - 1) \div 400)
EpochYear == 1970
\* the days from 1970-01-01 to January 1st of year y
DaysBeforeYear(y) ==
  365 * (y - EpochYear) + LeapYearsBefore(y) - LeapYearsBefore(EpochYear)

\* days since 1970-01-01 of day doy of year y
EpochDay(y, doy) == DaysBeforeYear(y) + doy - 1

\* dayofweek, Monday = 0; 1970-01-01 was a Thursday
ThursdayIndex == 3
DayOfWeek(epoch_day) == (epoch_day + ThursdayIndex) % 7

\* n-th Sunday (n >= 1) of month m of year y, as a day of the year
NthSunday(y, m, n) ==
  LET first == DaysBeforeMonth(y, m) + 1
      dow == DayOfWeek(EpochDay(y, first))
  IN  first + ((6 - dow) % 7) + 7 * (n - 1)

\* the US/Eastern offset from UTC in hours at a UTC instant: daylight time
\* runs from 07:00 UTC of the second Sunday of March to 06:00 UTC of the
\* first Sunday of November
EasternOffsetHours(y, doy, hour) ==
  LET start == NthSunday(y, 3, 2)
      stop == NthSunday(y, 11, 1)
      after_start == doy > start \/ (doy = start /\ hour >= 7)
      before_stop == doy < stop \/ (doy = stop /\ hour < 6)
  IN  IF after_start /\ before_stop THEN -4 ELSE -5

\* the fields of the local day doy of year y at local hour lh
local_fields(ly, ldoy, lm, lh, minute) ==
  [minute |-> minute, hour |-> lh, day |-> ldoy - DaysBeforeMonth(ly, lm),
   month |-> lm, year |-> ly, dayofweek |-> DayOfWeek(EpochDay(ly, ldoy)),
   dayofyear |-> ldoy, days_in_month |-> DaysInMonth(ly, lm),
   is_leap_year |-> IF IsLeapYear(ly) THEN 1 ELSE 0]

\* the local day and hour, h being the UTC hour plus the offset
local_day(t, h) ==
  LET back == h < 0
      prev_year == back /\ t.dayofyear = 1
      ly == IF prev_year THEN t.year - 1 ELSE t.year
      ldoy == IF prev_year THEN DaysInYear(t.year - 1)
              ELSE IF back THEN t.dayofyear - 1 ELSE t.dayofyear
  IN  local_fields(ly, ldoy, MonthOf(ly, ldoy),
                   IF back THEN h + HoursPerDay ELSE h, t.minute)

\* datetime_series.dt.tz_convert(self._timezone).dt: the local fields of the
\* UTC instant (year, day of year, hour, minute)
local_datetime(t) ==
  local_day(t, t.hour + EasternOffsetHours(t.year, t.dayofyear, t.hour))

\* line 119: astype('int64') // 10 ** 9 of the UTC instant, in seconds
epoch_seconds(t) ==
  ((EpochDay(t.year, t.dayofyear) * HoursPerDay + t.hour) * 60 + t.minute) * 60

FracAdd(a, b) == Frac(a[1] * b[2] + b[1] * a[2], a[2] * b[2])
IntVal(n) == <<n, 1>>

\* temporal_features.<name> can be read: the columns were set
readable(cols, names) == names \subseteq DOMAIN cols

\* lines 118-125: the timestamp and attribute columns, loc being the local
\* datetime accessor
extract_columns(e, t, loc) ==
  [n \in e.attribute_to_extract
         \cup (IF e.compute_timestamp THEN {"timestamp"} ELSE {}) |->
     IF n = "timestamp" THEN IntVal(epoch_seconds(t)) ELSE IntVal(loc[n])]

\* base_columns reading the UTC fields whenever the timestamp is asked for
base_columns_utc(e, t) ==
  extract_columns(e, t,
    IF e.compute_timestamp
    THEN local_fields(t.year, t.dayofyear, MonthOf(t.year, t.dayofyear), t.hour, t.minute)
    ELSE local_datetime(t))

\* lines 118-125 on the one-row frame of instant t
base_columns(e, t) == extract_columns(e, t, local_datetime(t))

\* lines 128-129
with_day_progress(cols) ==
  cols @@ [n \in {"day_progress"} |->
    FracDiv(FracAdd(cols["hour"], FracDiv(cols["minute"], IntVal(60))), IntVal(HoursPerDay))]
\* lines 131-132
with_week_progress(cols) ==
  cols @@ [n \in {"week_progress"} |->
    FracDiv(FracAdd(cols["dayofweek"], cols["day_progress"]), IntVal(7))]
\* lines 134-136
with_month_progress(cols) ==
  cols @@ [n \in {"month_progress"} |->
    FracDiv(FracAdd(FracAdd(cols["day"], IntVal(-1)), cols["day_progress"]),
            cols["days_in_month"])]
\* year_progress over 365 days whatever the year
with_year_progress_365(cols) ==
  cols @@ [n \in {"year_progress"} |->
    FracDiv(FracAdd(FracAdd(cols["dayofyear"], IntVal(-1)), cols["day_progress"]),
            IntVal(365))]

\* lines 138-140
with_year_progress(cols) ==
  cols @@ [n \in {"year_progress"} |->
    FracDiv(FracAdd(FracAdd(cols["dayofyear"], IntVal(-1)), cols["day_progress"]),
            FracAdd(IntVal(365), cols["is_leap_year"]))]

\* reading a column that was never computed raises an AttributeError
missing_column(st) == [st EXCEPT !.error = "AttributeError"]

\* lines 127-129
day_progress_step(e, st) ==
  IF st.error # "none" \/ ~e.compute_day_progress THEN st
  ELSE IF ~readable(st.cols, {"hour", "minute"}) THEN missing_column(st)
  ELSE [st EXCEPT !.cols = with_day_progress(@)]

\* lines 130-132
week_progress_step(e, st) ==
  IF st.error # "none" \/ ~(e.compute_day_progress /\ e.compute_week_progress) THEN st
  ELSE IF ~readable(st.cols, {"dayofweek", "day_progress"}) THEN missing_column(st)
  ELSE [st EXCEPT !.cols = with_week_progress(@)]

\* lines 133-136
month_progress_step(e, st) ==
  IF st.error # "none" \/ ~(e.compute_day_progress /\ e.compute_month_progress) THEN st
  ELSE IF ~readable(st.cols, {"day", "day_progress", "days_in_month"})
  THEN missing_column(st)
  ELSE [st EXCEPT !.cols = with_month_progress(@)]

\* lines 137-140
year_progress_step(e, st) ==
  IF st.error # "none" \/ ~(e.compute_day_progress /\ e.compute_year_progress) THEN st
  ELSE IF ~readable(st.cols, {"dayofyear", "day_progress", "is_leap_year"})
  THEN missing_column(st)
  ELSE [st EXCEPT !.cols = with_year_progress(@)]

\* line 142: temporal_features[self._feature_names]
project(e, st) ==
  IF st.error # "none"
  THEN [status |-> st.error, table |-> <<>>, computed |-> {}, columns |-> <<>>]
  ELSE IF ~readable(st.cols, SeqToSet(e.feature_names))
  THEN [status |-> "KeyError", table |-> <<>>, computed |-> DOMAIN st.cols,
        columns |-> st.cols]
  ELSE [status |-> "ok",
        table |-> [i \in DOMAIN e.feature_names |->
                     <<e.feature_names[i], st.cols[e.feature_names[i]]>>],
        computed |-> DOMAIN st.cols,
        columns |-> st.cols]

\* lines 127-140: the progress columns, in the order the code computes them
progress_columns(e, s0) ==
  year_progress_step(e,
    month_progress_step(e, week_progress_step(e, day_progress_step(e, s0))))

\* BasicTemporalFeatures.transform on a one-row frame
btf_transform(e, t) ==
  project(e, progress_columns(e, [cols |-> base_columns(e, t), error |-> "none"]))

\* the UTC instants of the one-row frames given to transform
SampleYears == {2015, 2016, 2017}
Instants ==
  UNION {{[year |-> y, dayofyear |-> d, hour |-> h, minute |-> m] :
            d \in {1, 60, 200, DaysInYear(y)}, h \in {4, 12, 23}, m \in {0, 59}} :
         y \in SampleYears}

\* ---- BasicTemporalFeatures: constructions and transforms
\* BasicTemporalFeatures(feature_names)
Construct ==
  /\ btf = NoEstimator
  /\ btf_out.status = "none"
  /\ \E e \in {btf_init(feature_arg)} :
       IF e.error = "none"
       THEN btf' = e /\ btf_out' = [status |-> "constructed"]
       ELSE btf' = NoEstimator /\ btf_out' = [status |-> e.error]
  /\ UNCHANGED <<feature_arg, instant, hol_vars, other_vars>>

\* BasicTemporalFeatures.transform
TransformBTF ==
  /\ btf # NoEstimator
  /\ btf_out' = btf_transform(btf, instant)
  /\ UNCHANGED <<btf, feature_arg, instant, hol_vars, other_vars>>

\* a run: a feature list and a timestamp
InitBTF ==
  /\ holidays = [d \in Days |-> NoLabel]
  /\ train_X = <<>>
  /\ test_X = <<>>
  /\ Constructed
  /\ NoGeoRun
  /\ NoCircleRun
  /\ NoLoadRun
  /\ NoDecomposeRun
  /\ feature_arg \in FeatureLists
  /\ instant \in Instants

NextBTF ==
  \/ Construct
  \/ TransformBTF

SpecBTF == InitBTF /\ [][NextBTF]_vars

\* ------------------------------------------------------- nytf_geo.py
\* ---- floating point, modelled as fixed point
\* A float is an integer count of 1/Scale; every operation rounds its exact
\* result to the nearest representable value, as IEEE arithmetic does at a
\* finer resolution.  An angle is an integer number of degrees: it stands for
\* the float latitude * conv_k, whatever unit the caller expressed it in.
Scale == 10000
\* math.pi
PiScaled == 31416

\* the quotient a / b rounded to the nearest integer, halves away from zero
rdiv(a, b) == Sign(a) * Sign(b) * ((2 * Abs(a) + Abs(b)) \div (2 * Abs(b)))
\* x * y and x / y of two floats
fmul(x, y) == rdiv(x * y, Scale)
fdiv(x, y) == rdiv(x * Scale, y)

\* math.cos of 0, 1, ..., 90 degrees
CosTable ==
  <<
    10000, 9998, 9994, 9986, 9976, 9962, 9945, 9925, 9903, 9877,
    9848, 9816, 9781, 9744, 9703, 9659, 9613, 9563, 9511, 9455,
    9397, 9336, 9272, 9205, 9135, 9063, 8988, 8910, 8829, 8746,
    8660, 8572, 8480, 8387, 8290, 8192, 8090, 7986, 7880, 7771,
    7660, 7547, 7431, 7314, 7193, 7071, 6947, 6820, 6691, 6561,
    6428, 6293, 6157, 6018, 5878, 5736, 5592, 5446, 5299, 5150,
    5000, 4848, 4695, 4540, 4384, 4226, 4067, 3907, 3746, 3584,
    3420, 3256, 3090, 2924, 2756, 2588, 2419, 2250, 2079, 1908,
    1736, 1564, 1392, 1219, 1045, 872, 698, 523, 349, 175,
    0
  >>

\* math.cos of an angle
cosd(d) ==
  LET m == Abs(d) % 360
      f == IF m > 180 THEN 360 - m ELSE m
  IN  IF f <= 90 THEN CosTable[f + 1] ELSE -CosTable[180 - f + 1]
\* math.sin of an angle
sind(d) == cosd(d - 90)

\* the float angle * conv_k: the radians of an angle
radians(d) == rdiv(d * PiScaled, 180)

\* the largest angle of lo..hi-1 whose cosine is at least x
RECURSIVE acos_search(_, _, _)
acos_search(x, lo, hi) ==
  IF hi - lo <= 1 THEN lo
  ELSE LET mid == (lo + hi) \div 2
       IN  IF cosd(mid) >= x THEN acos_search(x, mid, hi)
           ELSE acos_search(x, lo, mid)

\* math.acos of x in [-1, 1]: the angle of 0..180 whose cosine is nearest to x
acosd(x) ==
  LET lo == acos_search(x, 0, 181)
  IN  IF lo < 180 /\ x - cosd(lo + 1) <= cosd(lo) - x THEN lo + 1 ELSE lo

\* acos giving the reflex angle of the same cosine
acos_reflex(x) ==
  IF x > Scale \/ x < -Scale THEN [error |-> "ValueError", value |-> 0]
  ELSE [error |-> "none", value |-> radians(360 - acosd(x))]

\* math.acos: radians, or the math domain error outside [-1, 1]
acos(x) ==
  IF x > Scale \/ x < -Scale THEN [error |-> "ValueError", value |-> 0]
  ELSE [error |-> "none", value |-> radians(acosd(x))]

\* ---- the angle unit
AngUnits == {"rad", "RADIAN", "Deg", "degree", "°", "grad"}
\* str.lower on the unit strings above
lower(u) == IF u = "RADIAN" THEN "radian" ELSE IF u = "Deg" THEN "deg" ELSE u

Unbound == "unbound"
\* lines 45-51: conv_k, left unbound by the else branch, which only prints
conv_k(ang_unit) ==
  IF lower(ang_unit) \in {"rad", "radian"} THEN "1"
  ELSE IF lower(ang_unit) \in {"deg", "degree", "°"} THEN "pi/180"
  ELSE Unbound

Returned(v) == [status |-> "ok", value |-> v]
Raised(e) == [status |-> e, value |-> 0]

\* the same sum with the cosine of latitude_A taken twice
cos_angle_AB_first_point(c) ==
  fmul(fmul(cosd(c.latitude_A), cosd(c.latitude_A)),
       cosd(Abs(c.longitude_A - c.longitude_B)))
    + fmul(sind(c.latitude_A), sind(c.latitude_B))

\* cos(latitude_A*conv_k)*cos(latitude_B*conv_k)*cos(fabs(longitude_A-longitude_B)*conv_k)
\*   + sin(latitude_A*conv_k)*sin(latitude_B*conv_k)
cos_angle_AB(c) ==
  fmul(fmul(cosd(c.latitude_A), cosd(c.latitude_B)),
       cosd(Abs(c.longitude_A - c.longitude_B)))
    + fmul(sind(c.latitude_A), sind(c.latitude_B))

\* min(max(-1.0, x), 1.0)
clamp(x) ==
  LET m == IF x > -Scale THEN x ELSE -Scale
  IN  IF Scale < m THEN Scale ELSE m

\* nytf_geo.flying_distance_AB
flying_distance_AB(c) ==
  IF c.latitude_A = c.latitude_B /\ c.longitude_A = c.longitude_B THEN Returned(0)
  ELSE IF conv_k(c.ang_unit) = Unbound THEN Raised("UnboundLocalError")
  ELSE Returned(c.r * acos(clamp(cos_angle_AB(c))).value)

\* NYCTF_geo.flying_distance_AB: no test of identical points, no clamping
NYCTF_flying_distance_AB(c) ==
  IF conv_k(c.ang_unit) = Unbound THEN Raised("UnboundLocalError")
  ELSE LET a == acos(cos_angle_AB(c))
       IN  IF a.error # "none" THEN Raised(a.error) ELSE Returned(c.r * a.value)

\* lines 110-119: the averages of cos^2 and sin^2 of the latitude
cos_lat_squared_avg(c) ==
  fdiv(rdiv(sind(2 * c.latitude_B), 4) + rdiv(radians(c.latitude_B), 2)
         - rdiv(sind(2 * c.latitude_A), 4) - rdiv(radians(c.latitude_A), 2),
       radians(c.latitude_B - c.latitude_A))
sin_lat_squared_avg(c) ==
  fdiv(- rdiv(sind(2 * c.latitude_B), 4) + rdiv(radians(c.latitude_B), 2)
         + rdiv(sind(2 * c.latitude_A), 4) - rdiv(radians(c.latitude_A), 2),
       radians(c.latitude_B - c.latitude_A))

\* lines 101-125: the vector X, or the error raised while computing it
local_vector(c) ==
  IF c.latitude_A = c.latitude_B /\ c.longitude_A = c.longitude_B
  THEN [error |-> "none", X |-> <<0, 0>>]
  ELSE IF conv_k(c.ang_unit) = Unbound
  THEN [error |-> "UnboundLocalError", X |-> <<0, 0>>]
  ELSE IF c.latitude_A = c.latitude_B
  THEN LET a == acos(cos_angle_AB(c))
       IN  [error |-> a.error, X |-> <<c.r * a.value, 0>>]
  ELSE LET cos_norm_X1 ==
             clamp(fmul(cos_lat_squared_avg(c), cosd(c.longitude_A - c.longitude_B))
                   + sin_lat_squared_avg(c))
       IN  [error |-> "none",
            X |-> <<c.r * acos(cos_norm_X1).value,
                    c.r * Abs(radians(c.latitude_A) - radians(c.latitude_B))>>]

\* lines 127-134: P_inv.dot(X), then the sum of the absolute values
rotated_norm(X, plane_rot_angle) ==
  LET a == cosd(plane_rot_angle)
      b == sind(plane_rot_angle)
  IN  Abs(fmul(a, X[1]) + fmul(b, X[2])) + Abs(fmul(-b, X[1]) + fmul(a, X[2]))

\* nytf_geo.L1_distance_AB
L1_distance_AB(c) ==
  LET v == local_vector(c)
  IN  IF v.error # "none" THEN Raised(v.error)
      ELSE Returned(rotated_norm(v.X, c.plane_rot_angle))

\* NYCTF_geo.L1_distance_AB: no test of equal latitudes, no clamping
NYCTF_L1_distance_AB(c) ==
  IF conv_k(c.ang_unit) = Unbound THEN Raised("UnboundLocalError")
  ELSE IF radians(c.latitude_B - c.latitude_A) = 0 THEN Raised("ZeroDivisionError")
  ELSE LET a == acos(fmul(cos_lat_squared_avg(c), cosd(c.longitude_A - c.longitude_B))
                     + sin_lat_squared_avg(c))
       IN  IF a.error # "none" THEN Raised(a.error)
           ELSE Returned(rotated_norm(
                  <<c.r * a.value,
                    c.r * Abs(radians(c.latitude_A) - radians(c.latitude_B))>>,
                  c.plane_rot_angle))

\* ---- the runs of the distance functions
Latitudes == {-45, -30, 8, 10, 30, 45}
Longitudes == {-180, -74, 0, 180}
Rotations == {0, 30, 45}
GeoCalls ==
  [latitude_A : Latitudes, longitude_A : Longitudes,
   latitude_B : Latitudes, longitude_B : Longitudes,
   ang_unit : AngUnits, r : 0..MaxRadius, plane_rot_angle : Rotations]

FlyingDistance ==
  /\ geo_call # NoCall
  /\ geo_out' = [fn |-> "nytf_geo.flying_distance_AB"] @@ flying_distance_AB(geo_call)
  /\ UNCHANGED <<geo_call, hol_vars, btf_vars, circle_vars, load_vars, decompose_vars>>

FlyingDistanceNYCTF ==
  /\ geo_call # NoCall
  /\ geo_out' = [fn |-> "NYCTF_geo.flying_distance_AB"] @@ NYCTF_flying_distance_AB(geo_call)
  /\ UNCHANGED <<geo_call, hol_vars, btf_vars, circle_vars, load_vars, decompose_vars>>

L1Distance ==
  /\ geo_call # NoCall
  /\ geo_out' = [fn |-> "nytf_geo.L1_distance_AB"] @@ L1_distance_AB(geo_call)
  /\ UNCHANGED <<geo_call, hol_vars, btf_vars, circle_vars, load_vars, decompose_vars>>

L1DistanceNYCTF ==
  /\ geo_call # NoCall
  /\ geo_out' = [fn |-> "NYCTF_geo.L1_distance_AB"] @@ NYCTF_L1_distance_AB(geo_call)
  /\ UNCHANGED <<geo_call, hol_vars, btf_vars, circle_vars, load_vars, decompose_vars>>

InitGeo ==
  /\ NoEstimatorRun
  /\ NoCircleRun
  /\ NoLoadRun
  /\ NoDecomposeRun
  /\ geo_call \in GeoCalls
  /\ geo_out = NoCall

NextGeo ==
  \/ FlyingDistance
  \/ FlyingDistanceNYCTF
  \/ L1Distance
  \/ L1DistanceNYCTF

SpecGeo == InitGeo /\ [][NextGeo]_vars

\* ------------------------------------------------------ SegmentToCircle
\* numpy.cos and numpy.sin of a float counted in radians
degrees(x) == rdiv(x * 180, PiScaled)
cos_rad(x) == cosd(degrees(x))
sin_rad(x) == sind(degrees(x))

\* line 158: (col - self.segment_min) / ((self.segment_max - self.segment_min) * 2 * pi)
circle_angle(e, v) ==
  fdiv((v - e.segment_min) * Scale, (e.segment_max - e.segment_min) * 2 * PiScaled)

\* SegmentToCircle.transform on a Series: the <name>_cos and <name>_sin columns
circle_transform(e, data) ==
  [i \in DOMAIN data |->
     [cos |-> cos_rad(circle_angle(e, data[i])),
      sin |-> sin_rad(circle_angle(e, data[i]))]]

\* ---- the runs of SegmentToCircle
Segments ==
  {[segment_min |-> lo, segment_max |-> hi] : lo \in 0..MaxSegment, hi \in 0..MaxSegment}
CircleColumns == UNION {[1..n -> 0..MaxSegment] : n \in 1..MaxLen}

TransformCircle ==
  /\ circle # NoCall
  /\ circle_out' = circle_transform(circle, circle_data)
  /\ UNCHANGED <<circle, circle_data, hol_vars, btf_vars, geo_vars, load_vars, decompose_vars>>

\* a segment with segment_min < segment_max and a column of values
InitCircle ==
  /\ NoEstimatorRun
  /\ NoGeoRun
  /\ NoLoadRun
  /\ NoDecomposeRun
  /\ circle \in {e \in Segments : e.segment_min < e.segment_max}
  /\ circle_data \in CircleColumns
  /\ circle_out = NoCall

NextCircle == TransformCircle

SpecCircle == InitCircle /\ [][NextCircle]_vars

\* ------------------------------------------------------- load_dataframe
\* the default bounds of the signature, latitudes and longitudes in 1/100 degree
inf_passenger == 0
sup_passenger == 7
inf_fare == 0
sup_fare == 100
inf_lat == 4056
sup_lat == 4171
inf_long == -7427
sup_long == -7298

Missing == <<>>
DataNames == {"train", "test", "train_2015", "valid"}
\* 'train' in name
contains_train(name) == name \in {"train", "train_2015"}

\* a csv record inside every bound, and the same record with one value put on
\* a bound
InsideRow ==
  [key |-> "k", pickup_datetime |-> <<"str", 0>>, passenger_count |-> 1,
   fare_amount |-> 10, pickup_latitude |-> 4075, pickup_longitude |-> -7400,
   dropoff_latitude |-> 4075, dropoff_longitude |-> -7400]
CsvRows ==
  {InsideRow}
    \cup {[InsideRow EXCEPT !.passenger_count = v] : v \in {inf_passenger, sup_passenger}}
    \cup {[InsideRow EXCEPT !.fare_amount = v] : v \in {inf_fare, sup_fare}}
    \cup {[InsideRow EXCEPT !.pickup_latitude = v] : v \in {inf_lat, sup_lat}}
    \cup {[InsideRow EXCEPT !.dropoff_latitude = v] : v \in {inf_lat, sup_lat}}
    \cup {[InsideRow EXCEPT !.pickup_longitude = v] : v \in {inf_long, sup_long}}
    \cup {[InsideRow EXCEPT !.dropoff_longitude = v] : v \in {inf_long, sup_long}}
CsvContents == UNION {[1..n -> CsvRows] : n \in 0..MaxRows}

\* lines 55-56: usecols drops the key column when 'train' is in the name
read_columns(name, row) ==
  IF contains_train(name)
  THEN [c \in DOMAIN row \ {"key"} |-> row[c]]
  ELSE row

\* line 60: to_datetime of the text column
parse_datetime(row) ==
  [row EXCEPT !.pickup_datetime = <<"datetime64[ns, UTC]", row.pickup_datetime[2]>>]

\* the bounds taken as inclusive
within_bounds_inclusive(row) ==
  /\ inf_passenger <= row.passenger_count /\ row.passenger_count <= sup_passenger
  /\ inf_fare <= row.fare_amount /\ row.fare_amount <= sup_fare
  /\ inf_lat <= row.pickup_latitude /\ row.pickup_latitude <= sup_lat
  /\ inf_lat <= row.dropoff_latitude /\ row.dropoff_latitude <= sup_lat
  /\ inf_long <= row.pickup_longitude /\ row.pickup_longitude <= sup_long
  /\ inf_long <= row.dropoff_longitude /\ row.dropoff_longitude <= sup_long

\* lines 63-69: the record is strictly inside every bound
within_bounds(row) ==
  /\ inf_passenger < row.passenger_count /\ row.passenger_count < sup_passenger
  /\ inf_fare < row.fare_amount /\ row.fare_amount < sup_fare
  /\ inf_lat < row.pickup_latitude /\ row.pickup_latitude < sup_lat
  /\ inf_lat < row.dropoff_latitude /\ row.dropoff_latitude < sup_lat
  /\ inf_long < row.pickup_longitude /\ row.pickup_longitude < sup_long
  /\ inf_long < row.dropoff_longitude /\ row.dropoff_longitude < sup_long

\* lines 63-69: dataframe[mask], the records inside the bounds, in order
RECURSIVE filter_bounds(_)
filter_bounds(rows) ==
  IF rows = <<>> THEN <<>>
  ELSE IF within_bounds(Head(rows)) THEN <<Head(rows)>> \o filter_bounds(Tail(rows))
  ELSE filter_bounds(Tail(rows))

\* lines 55-69: the frame read from data/raw/<name>.csv
read_csv(name, file) ==
  LET parsed == [i \in DOMAIN file.rows |->
                   parse_datetime(read_columns(name, file.rows[i]))]
  IN  [of |-> file.of,
       rows |-> IF contains_train(name) THEN filter_bounds(parsed)
                ELSE parsed]

\* load_dataframe(name, pkl, cloud): what it returns or raises, and the files
\* it leaves
load_dataframe(c, st) ==
  IF c.cloud
  THEN [status |-> "ok", frame |-> st.bucket["train.pkl"], storage |-> st]
  ELSE IF c.pkl
  THEN IF st.processing[c.name] = Missing
       THEN [status |-> "FileNotFoundError", frame |-> Missing, storage |-> st]
       ELSE [status |-> "ok", frame |-> st.processing[c.name], storage |-> st]
  ELSE IF st.raw[c.name] = Missing
  THEN [status |-> "FileNotFoundError", frame |-> Missing, storage |-> st]
  ELSE LET dataframe == read_csv(c.name, st.raw[c.name])
       IN  [status |-> "ok", frame |-> dataframe,
            storage |-> [st EXCEPT !.processing[c.name] = dataframe]]

\* ---- the runs of load_dataframe
\* the files: train.pkl in the bucket, the pickles of the names of Pickled in
\* data/processing, and one csv per name but "valid" in data/raw
Storages ==
  {[bucket |-> [f \in {"train.pkl"} |-> read_csv("train", [of |-> "train", rows |-> rows])],
    processing |-> [n \in DataNames |->
                      IF n \in Pickled THEN read_csv(n, [of |-> n, rows |-> rows])
                      ELSE Missing],
    raw |-> [n \in DataNames |->
               IF n = "valid" THEN Missing ELSE [of |-> n, rows |-> rows]]] :
     Pickled \in SUBSET DataNames, rows \in CsvContents}

LoadDataframe ==
  /\ load_call # NoCall
  /\ \E r \in {load_dataframe(load_call, storage)} :
       /\ load_out' = [status |-> r.status, frame |-> r.frame]
       /\ storage' = r.storage
  /\ UNCHANGED <<load_call, hol_vars, btf_vars, geo_vars, circle_vars, decompose_vars>>

InitLoad ==
  /\ NoEstimatorRun
  /\ NoGeoRun
  /\ NoCircleRun
  /\ NoDecomposeRun
  /\ load_call \in [name : DataNames, pkl : BOOLEAN, cloud : BOOLEAN]
  /\ storage \in Storages
  /\ load_out = NoCall

NextLoad == LoadDataframe

SpecLoad == InitLoad /\ [][NextLoad]_vars

\* ------------------------------------------ decompose_data_to_arrays_list
\* the number of elements of an array of the given shape
RECURSIVE Product(_)
Product(shape) == IF shape = <<>> THEN 1 ELSE shape[1] * Product(Tail(shape))

\* range(n) as a list
range(n) == [i \in 1..n |-> i - 1]

\* ndarray.reshape(n, ): the elements in order, ValueError when the size differs
reshape(a, n) ==
  IF Product(a.shape) = n THEN [error |-> "none", values |-> a.flat]
  ELSE [error |-> "ValueError", values |-> <<>>]

\* data[:, i] of a 2-dimensional array, i counted from 0
column(a, i) == [r \in 1..a.shape[1] |-> a.flat[(r - 1) * a.shape[2] + i + 1]]

Decomposed(data, index, col_names) ==
  [status |-> "ok", data |-> data, index |-> index, col_names |-> col_names]
DecomposeRaised(e) ==
  [status |-> e, data |-> <<>>, index |-> <<>>, col_names |-> <<>>]

\* lines 31-33: the single-column array
decompose_one_column(a) ==
  LET r == reshape(a, a.shape[1])
  IN  IF r.error # "none" THEN DecomposeRaised(r.error)
      ELSE Decomposed(<<r.values>>, range(a.shape[1]), <<0>>)

\* decompose_data_to_arrays_list; data.shape[1] of an array without a second
\* dimension raises IndexError
decompose_data_to_arrays_list(data) ==
  IF data.kind = "Series"
  THEN Decomposed(<<data.values>>, data.index, <<data.name>>)
  ELSE IF data.kind = "DataFrame"
  THEN Decomposed([c \in DOMAIN data.columns |-> data.values[c]], data.index, data.columns)
  ELSE IF data.kind = "ndarray"
  THEN IF Len(data.shape) = 1 THEN decompose_one_column(data)
       ELSE IF Len(data.shape) < 2 THEN DecomposeRaised("IndexError")
       ELSE IF data.shape[2] = 1 THEN decompose_one_column(data)
       ELSE IF Len(data.shape) = 2
       THEN Decomposed([c \in 1..data.shape[2] |-> column(data, c - 1)],
                       range(data.shape[1]), range(data.shape[2]))
       ELSE DecomposeRaised("ValueError")
  ELSE DecomposeRaised("ValueError")

\* ---- the runs of decompose_data_to_arrays_list
Cells == {0, 1}
ColumnLists == {<<>>, <<"a">>, <<"a", "b">>}
SeriesInputs ==
  {[kind |-> "Series", name |-> "a", index |-> range(n), values |-> v] :
     n \in 0..MaxDim, v \in UNION {[1..m -> Cells] : m \in 0..MaxDim}}
DataFrameInputs ==
  UNION {{[kind |-> "DataFrame", columns |-> cols, index |-> range(n), values |-> v] :
            v \in [DOMAIN cols -> [1..n -> Cells]]} :
         cols \in ColumnLists, n \in 0..MaxDim}
\* arrays of 0 to 3 dimensions holding 0, 1, 2, ... in order
Shapes == UNION {[1..d -> 0..MaxDim] : d \in 0..3}
ArrayInputs ==
  {[kind |-> "ndarray", shape |-> sh, flat |-> range(Product(sh))] : sh \in Shapes}
OtherInputs == {[kind |-> "list"], [kind |-> "NoneType"]}
DecomposeInputs ==
  {d \in SeriesInputs : Len(d.values) = Len(d.index)}
    \cup DataFrameInputs \cup ArrayInputs \cup OtherInputs

Decompose ==
  /\ decompose_data # NoCall
  /\ decompose_out' = decompose_data_to_arrays_list(decompose_data)
  /\ UNCHANGED <<decompose_data, hol_vars, btf_vars, geo_vars, circle_vars, load_vars>>

InitDecompose ==
  /\ NoEstimatorRun
  /\ NoGeoRun
  /\ NoCircleRun
  /\ NoLoadRun
  /\ decompose_data \in DecomposeInputs
  /\ decompose_out = NoCall

NextDecompose == Decompose

SpecDecompose == InitDecompose /\ [][NextDecompose]_vars

\* ------------------------------------------------------------- properties
\* the label the calendar gives the day of a timestamp
label_of(date) ==
  IF holidays[date \div TicksPerDay] = NoLabel THEN "normal"
  ELSE holidays[date \div TicksPerDay]

RowsLabelled(X, l) == {i \in DOMAIN X : label_of(X[i].date) = l}

RECURSIVE SumOver(_, _)
SumOver(X, S) ==
  IF S = {} THEN 0
  ELSE LET i == CHOOSE j \in S : TRUE IN X[i].value + SumOver(X, S \ {i})

Fitted == days_ref_df # Unset
HolidayRows == {i \in DOMAIN days_ref_df : days_ref_df[i].holiday # "normal"}

\* C1: over a span with exactly one holiday, on day D, every day before D has
\* next_holiday_date = D and no prev_holiday_date, and every day after D has
\* prev_holiday_date = D and no next_holiday_date
C1_SingleHolidayPointers ==
  (Fitted /\ Cardinality(HolidayRows) = 1) =>
    LET D == CHOOSE i \in HolidayRows : TRUE
        dD == Some(days_ref_df[D].date)
    IN  \A i \in DOMAIN days_ref_df :
          /\ i < D => /\ days_ref_df[i].next_holiday_date = dD
                      /\ days_ref_df[i].prev_holiday_date = NaT
          /\ i > D => /\ days_ref_df[i].prev_holiday_date = dD
                      /\ days_ref_df[i].next_holiday_date = NaT

\* the fit data has a normal record and the mean of its normal records is not 0
NormalMeanNonZero ==
  /\ RowsLabelled(train_X, "normal") # {}
  /\ SumOver(train_X, RowsLabelled(train_X, "normal")) # 0

SameDataTransformed ==
  /\ lastOp \in {"transform", "fit_transform"}
  /\ out.status = "ok"
  /\ DateOnly(out.rows) = DateOnly(train_X)

\* C2: after a fit on data with a normal record and a non-zero normal mean,
\* the score of "normal" is exactly 1, and the transform of the same data
\* gives holiday_score 1 on every normal record
C2_NormalScoreIsOne ==
  (Fitted /\ NormalMeanNonZero) =>
    /\ "normal" \in DOMAIN holiday_scores
    /\ holiday_scores["normal"] = One
    /\ SameDataTransformed =>
         \A i \in RowsLabelled(train_X, "normal") : out.rows[i].holiday_score = One

C2_Witness ==
  /\ NormalMeanNonZero
  /\ lastOp = "transform"
  /\ SameDataTransformed
  /\ \E i \in DOMAIN out.rows : out.rows[i].holiday_score = One
  /\ \E i \in DOMAIN out.rows : IsFinite(out.rows[i].holiday_score)
                                 /\ out.rows[i].holiday_score # One

CarriedLabels == {label_of(train_X[i].date) : i \in DOMAIN train_X}

\* s is the quotient of the mean of the records labelled l by the mean of the
\* normal records, not finite when the normal mean is 0
IsMeanRatio(s, l) ==
  LET sL == SumOver(train_X, RowsLabelled(train_X, l))
      cL == Cardinality(RowsLabelled(train_X, l))
      sN == SumOver(train_X, RowsLabelled(train_X, "normal"))
      cN == Cardinality(RowsLabelled(train_X, "normal"))
  IN  IF sN = 0
      THEN Len(s) = 2 /\ s[2] = 0
      ELSE /\ IsFinite(s)
           /\ s[2] > 0
           /\ s[1] * (cL * sN) = s[2] * (sL * cN)
           /\ GCD(Abs(s[1]), s[2]) = 1

\* C3: after a fit, every label carried by a fit record has the score
\* mean(label) / mean(normal), and no other label has an entry
C3_ScoresAreMeanRatios ==
  (Fitted /\ "normal" \in CarriedLabels) =>
    /\ DOMAIN holiday_scores = CarriedLabels
    /\ \A l \in CarriedLabels : IsMeanRatio(holiday_scores[l], l)

C3_Witness ==
  /\ lastOp = "fit"
  /\ \E l \in CarriedLabels \ {"normal"} :
       /\ Cardinality(RowsLabelled(train_X, l)) = 2
       /\ IsFinite(holiday_scores[l])
       /\ holiday_scores[l] \notin {One, <<0, 1>>}
       /\ HolidayNames \ CarriedLabels # {}

FitCalled == lastOp \in {"fit", "fit_transform"}

\* C4 as stated: with no normal record in the fit data, fit fails with an
\* ArithmeticError or yields a table of NaN scores
C4_Original ==
  (FitCalled /\ "normal" \notin CarriedLabels) =>
    \/ out.status = "ArithmeticError"
    \/ /\ out.status \in {"self", "ok"}
       /\ \A l \in DOMAIN holiday_scores : ~IsFinite(holiday_scores[l])

\* C4 amended: with no normal record in the fit data, fit and fit_transform
\* fail with a KeyError and return nothing
C4_NoNormalKeyError ==
  (FitCalled /\ "normal" \notin CarriedLabels) =>
    /\ out.status = "KeyError"
    /\ out.rows = <<>>

C4_Witness ==
  /\ FitCalled
  /\ "normal" \notin CarriedLabels
  /\ out.status = "KeyError"
  /\ Cardinality(CarriedLabels) = 2


TransformDone == lastOp = "transform" /\ Fitted

\* C5: in transform, a record whose own, previous or next holiday label has no
\* entry in the score table gets a missing score, transform does not fail, and
\* the records whose label has an entry get that entry
C5_MissingScoreIsNaN ==
  TransformDone =>
    /\ out.status = "ok"
    /\ Len(out.rows) = Len(holiday_info)
    /\ \A i \in DOMAIN out.rows :
         /\ out.rows[i].holiday_score =
              IF holiday_info[i].holiday \in DOMAIN holiday_scores
              THEN holiday_scores[holiday_info[i].holiday] ELSE NaN
         /\ out.rows[i].prev_holiday_score =
              IF holiday_info[i].prev_holiday \in DOMAIN holiday_scores
              THEN holiday_scores[holiday_info[i].prev_holiday] ELSE NaN
         /\ out.rows[i].next_holiday_score =
              IF holiday_info[i].next_holiday \in DOMAIN holiday_scores
              THEN holiday_scores[holiday_info[i].next_holiday] ELSE NaN

C5_Witness ==
  /\ TransformDone
  /\ out.status = "ok"
  /\ \E i, j \in DOMAIN out.rows :
       /\ holiday_info[i].holiday \in HolidayNames \ DOMAIN holiday_scores
       /\ out.rows[i].holiday_score = NaN
       /\ holiday_info[j].next_holiday \in HolidayNames \ DOMAIN holiday_scores
       /\ out.rows[j].next_holiday_score = NaN
       /\ IsFinite(out.rows[j].holiday_score)

\* C6: a transform leaves the fitted day-reference table and the fitted score
\* table exactly as they were; the noon offset is not written back
C6_TransformKeepsTables ==
  [][lastOp' = "transform" => /\ days_ref_df' = days_ref_df
                              /\ holiday_scores' = holiday_scores]_vars

C6_Witness ==
  /\ TransformDone
  /\ out.status = "ok"
  /\ \E i \in DOMAIN holiday_info :
       /\ holiday_info[i].prev_holiday_date # NaT
       /\ holiday_info[i].next_holiday_date # NaT
       /\ \A k \in DOMAIN days_ref_df :
            holiday_info[i].prev_holiday_date # days_ref_df[k].prev_holiday_date

\* C7: fit_transform(X) returns what transform(X) returns after fit(X), and
\* leaves the tables fit(X) leaves
C7_FitTransformIsFitThenTransform ==
  lastOp = "fit_transform" =>
    LET f == fit_result(holidays, train_X)
        t == transform_result(train_X, f.days_ref_df, f.holiday_scores)
    IN  /\ days_ref_df = f.days_ref_df
        /\ holiday_scores = f.holiday_scores
        /\ IF f.error = "none"
           THEN out = t.out /\ days_ref_df = t.days_ref_df
           ELSE out.status = f.error /\ out.rows = <<>>

C7_Witness ==
  /\ lastOp = "fit_transform"
  /\ out.status = "ok"
  /\ \E i \in DOMAIN out.rows :
       /\ IsFinite(out.rows[i].prev_holiday_score)
       /\ out.rows[i].prev_holiday_score # One
       /\ out.rows[i].prev_holiday_dist # IntNaT

DayOf(date) == date \div TicksPerDay
PointersOf(row) ==
  <<row.holiday, row.prev_holiday_date, row.prev_holiday,
    row.next_holiday_date, row.next_holiday>>

\* C8: two timestamps of the same calendar day get the same holiday label and
\* the same previous and next holiday date and label
C8_SameDaySameInfo ==
  \A i, j \in DOMAIN holiday_info :
    DayOf(holiday_info[i].date) = DayOf(holiday_info[j].date)
      => PointersOf(holiday_info[i]) = PointersOf(holiday_info[j])

C8_Witness ==
  /\ TransformDone
  /\ \E i, j \in DOMAIN holiday_info :
       /\ DayOf(holiday_info[i].date) = DayOf(holiday_info[j].date)
       /\ holiday_info[i].date # holiday_info[j].date
       /\ holiday_info[i].holiday \in HolidayNames
       /\ holiday_info[i].prev_holiday_date # NaT

\* d is the whole number of seconds of a duration of delta ticks
IsWholeSeconds(d, delta) ==
  /\ Len(d) = 1
  /\ d[1] * TicksPerSecond <= delta
  /\ delta < (d[1] + 1) * TicksPerSecond

NoonOf(midnight) == midnight + NoonOffsetHours * SecondsPerHour * TicksPerSecond

\* C9: for a record with defined holiday pointers, prev_holiday_dist is the
\* whole seconds from noon of the previous holiday's day to the record, and
\* next_holiday_dist the whole seconds from the record to noon of the next
\* holiday's day
C9_DistToNoon ==
  (Fitted /\ out.status = "ok") =>
    \A i \in DOMAIN out.rows : \A k \in DOMAIN days_ref_df :
      days_ref_df[k].date = DayOf(out.rows[i].date) * TicksPerDay =>
        /\ days_ref_df[k].prev_holiday_date # NaT =>
             IsWholeSeconds(out.rows[i].prev_holiday_dist,
                            out.rows[i].date - NoonOf(days_ref_df[k].prev_holiday_date[1]))
        /\ days_ref_df[k].next_holiday_date # NaT =>
             IsWholeSeconds(out.rows[i].next_holiday_dist,
                            NoonOf(days_ref_df[k].next_holiday_date[1]) - out.rows[i].date)

C9_Witness ==
  /\ TransformDone
  /\ out.status = "ok"
  /\ \E i \in DOMAIN out.rows :
       /\ Len(out.rows[i].prev_holiday_dist) = 1
       /\ Len(out.rows[i].next_holiday_dist) = 1
       /\ out.rows[i].prev_holiday_dist[1] > 0
       /\ out.rows[i].next_holiday_dist[1] > 0
       /\ out.rows[i].date % TicksPerSecond # 0


\* what an instance will compute: its attributes and its flagged features
Plan(e) ==
  e.attribute_to_extract
    \cup (IF e.compute_timestamp THEN {"timestamp"} ELSE {})
    \cup (IF e.compute_day_progress THEN {"day_progress"} ELSE {})
    \cup (IF e.compute_week_progress THEN {"week_progress"} ELSE {})
    \cup (IF e.compute_month_progress THEN {"month_progress"} ELSE {})
    \cup (IF e.compute_year_progress THEN {"year_progress"} ELSE {})

PrerequisiteClosed(S) ==
  /\ "year_progress" \in S => {"day_progress", "dayofyear", "is_leap_year"} \subseteq S
  /\ "month_progress" \in S => {"day_progress", "day", "days_in_month"} \subseteq S
  /\ "week_progress" \in S => {"day_progress", "dayofweek"} \subseteq S
  /\ "day_progress" \in S => {"hour", "minute"} \subseteq S

Transformed == btf # NoEstimator /\ btf_out.status # "constructed"
ColumnNames(table) == [i \in DOMAIN table |-> table[i][1]]

\* C10 as stated: for every list of implemented names the computed set is
\* closed under prerequisites, transform reads no column it did not compute,
\* and the table has exactly the requested columns in the caller's order
C10_Original ==
  btf # NoEstimator =>
    /\ SeqToSet(btf.requested) \subseteq Plan(btf)
    /\ PrerequisiteClosed(Plan(btf))
    /\ Transformed => /\ btf_out.status = "ok"
                      /\ ColumnNames(btf_out.table) = btf.requested

\* C10 amended: the same for every non-empty list; an empty list is a request
\* for the 14 implemented features in the order of implemented_features
C10_ClosedAndProjected ==
  btf # NoEstimator =>
    LET asked == IF btf.requested # <<>> THEN btf.requested
                 ELSE implemented_features
    IN  /\ SeqToSet(asked) \subseteq Plan(btf)
        /\ PrerequisiteClosed(Plan(btf))
        /\ Transformed => /\ btf_out.status = "ok"
                          /\ btf_out.computed = Plan(btf)
                          /\ ColumnNames(btf_out.table) = asked

C10_Witness ==
  /\ Transformed
  /\ btf_out.status = "ok"
  /\ btf.requested = <<"year_progress", "timestamp">>
  /\ ColumnNames(btf_out.table) = btf.requested
  /\ btf_out.computed # SeqToSet(btf.requested)


\* ---- C11
HasUnknownName(names) == \E i \in DOMAIN names : names[i] \notin SeqToSet(implemented_features)
Constructing == btf_out.status # "none"

\* C11 as stated: a feature list holding a name outside the implemented set
\* makes the constructor fail with a ConfigurationError and leaves no estimator
C11_Original ==
  (Constructing /\ HasUnknownName(feature_arg)) =>
    btf = NoEstimator /\ btf_out.status = "ConfigurationError"

\* C11 amended: a feature list holding a name outside the implemented set,
\* whatever implemented names accompany it, makes the constructor raise a
\* ValueError; no estimator exists afterwards, so no transform is enabled
C11_UnknownNameValueError ==
  (Constructing /\ HasUnknownName(feature_arg)) =>
    /\ btf = NoEstimator
    /\ btf_out.status = "ValueError"
    /\ ~ENABLED TransformBTF

C11_Witness ==
  /\ Constructing
  /\ btf_out.status = "ValueError"
  /\ Len(feature_arg) = 2
  /\ feature_arg[1] = "year_progress"
  /\ feature_arg[2] = UnknownFeature

\* ---- C12
InUnitInterval(x) == x[2] > 0 /\ 0 <= x[1] /\ x[1] < x[2]

\* (hour + minute/60)/24 and (dayofyear - 1 + day_progress)/(365 + is_leap_year)
\* written out over the local calendar fields of an instant
day_progress_of(loc) == Frac(60 * loc.hour + loc.minute, 60 * HoursPerDay)
year_progress_of(loc) ==
  Frac((loc.dayofyear - 1) * 60 * HoursPerDay + 60 * loc.hour + loc.minute,
       (365 + loc.is_leap_year) * 60 * HoursPerDay)

TransformedOk == Transformed /\ btf_out.status = "ok"

\* C12: for every timestamp, day_progress is (hour + minute/60)/24 and lies in
\* [0,1), and year_progress is (dayofyear - 1 + day_progress)/(365 +
\* is_leap_year) and lies in [0,1), whenever transform computes them
C12_ProgressInUnitInterval ==
  TransformedOk =>
    /\ "day_progress" \in btf_out.computed =>
         /\ btf_out.columns["day_progress"] = day_progress_of(local_datetime(instant))
         /\ InUnitInterval(btf_out.columns["day_progress"])
    /\ "year_progress" \in btf_out.computed =>
         /\ btf_out.columns["year_progress"] = year_progress_of(local_datetime(instant))
         /\ InUnitInterval(btf_out.columns["year_progress"])

\* the last minute of a leap year, local time
C12_Witness ==
  /\ TransformedOk
  /\ "year_progress" \in btf_out.computed
  /\ btf_out.columns["is_leap_year"] = IntVal(1)
  /\ btf_out.columns["dayofyear"] = IntVal(366)
  /\ btf_out.columns["hour"] = IntVal(23)
  /\ btf_out.columns["minute"] = IntVal(59)
  /\ btf_out.columns["year_progress"] = Frac(366 * 1440 - 1, 366 * 1440)

\* ---- C13
\* the columns transform computes when feature n is the only one requested
ColumnsAlone(n) == btf_transform(btf_init(<<n>>), instant).columns

\* C13: every column transform computes, requested or prerequisite, has the
\* value it has when that feature is requested alone, and every column of the
\* returned table holds that value: no value depends on the other requested
\* features or on their order
C13_ValueIndependentOfRequest ==
  TransformedOk =>
    /\ \A n \in btf_out.computed : btf_out.columns[n] = ColumnsAlone(n)[n]
    /\ \A i \in DOMAIN btf_out.table :
         btf_out.table[i][2] = ColumnsAlone(btf_out.table[i][1])[btf_out.table[i][1]]
    /\ \A n \in {"day_progress", "dayofyear", "is_leap_year"} :
         "year_progress" \in btf_out.computed =>
           btf_out.columns[n] = ColumnsAlone("year_progress")[n]

C13_Witness ==
  /\ TransformedOk
  /\ btf.requested = <<"is_leap_year", "year_progress">>
  /\ btf_out.columns["day_progress"] = ColumnsAlone("year_progress")["day_progress"]
  /\ btf_out.columns["day_progress"] # IntVal(0)
  /\ btf_out.table[2][2] = ColumnsAlone("year_progress")["year_progress"]


\* ---- C14 .. C18: the distance functions
Called(fn) == geo_out # NoCall /\ geo_out.fn = fn
SamePoint(c) == c.latitude_A = c.latitude_B /\ c.longitude_A = c.longitude_B
Swapped(c) ==
  [c EXCEPT !.latitude_A = c.latitude_B, !.longitude_A = c.longitude_B,
            !.latitude_B = c.latitude_A, !.longitude_B = c.longitude_A]

\* C14: flying_distance_AB of a point and itself returns exactly 0, for every
\* point, radius and recognised angle unit, in nytf_geo.py and in NYCTF_geo.py
C14_SamePointZero ==
  ((Called("nytf_geo.flying_distance_AB") \/ Called("NYCTF_geo.flying_distance_AB"))
     /\ SamePoint(geo_call) /\ conv_k(geo_call.ang_unit) # Unbound) =>
    geo_out.status = "ok" /\ geo_out.value = 0

\* C15: an unrecognised angle unit makes flying_distance_AB and L1_distance_AB
\* fail for every pair of points, identical points included: neither returns
\* a distance
C15_UnknownUnitFails ==
  ((Called("nytf_geo.flying_distance_AB") \/ Called("nytf_geo.L1_distance_AB"))
     /\ conv_k(geo_call.ang_unit) = Unbound) =>
    geo_out.status # "ok"

\* C16: every value flying_distance_AB returns for a radius r >= 0 lies between
\* 0 and pi * r
C16_WithinHalfCircle ==
  (Called("nytf_geo.flying_distance_AB") /\ geo_out.status = "ok") =>
    0 <= geo_out.value /\ geo_out.value <= PiScaled * geo_call.r

\* two antipodal points: the distance is pi * r
C16_Witness ==
  /\ Called("nytf_geo.flying_distance_AB")
  /\ geo_out.status = "ok"
  /\ geo_call.r = MaxRadius
  /\ geo_call.latitude_A = -geo_call.latitude_B
  /\ Abs(geo_call.longitude_A - geo_call.longitude_B) = 180
  /\ geo_out.value = PiScaled * geo_call.r

\* C17: flying_distance_AB gives the same result, value or error, when its two
\* points are exchanged
C17_Symmetric ==
  Called("nytf_geo.flying_distance_AB") =>
    flying_distance_AB(Swapped(geo_call)) = [status |-> geo_out.status, value |-> geo_out.value]

C17_Witness ==
  /\ Called("nytf_geo.flying_distance_AB")
  /\ geo_out.status = "ok"
  /\ geo_out.value > 0
  /\ geo_call.latitude_A = 8
  /\ geo_call.latitude_B = -45
  /\ geo_call.longitude_A = -74
  /\ geo_call.longitude_B = 0
  /\ flying_distance_AB(Swapped(geo_call)).value = geo_out.value

\* C18: for two different points and every rotation angle, L1_distance_AB is
\* at least flying_distance_AB
C18_L1AtLeastFlying ==
  (Called("nytf_geo.L1_distance_AB") /\ geo_out.status = "ok" /\ ~SamePoint(geo_call)) =>
    geo_out.value >= flying_distance_AB(geo_call).value


\* ---- C19
\* C19: SegmentToCircle.transform maps segment_min and segment_max to the same
\* (cos, sin) point, for every segment with segment_min < segment_max
C19_EndsMeet ==
  circle_out # NoCall =>
    \A i, j \in DOMAIN circle_data :
      (circle_data[i] = circle.segment_min /\ circle_data[j] = circle.segment_max) =>
        circle_out[i] = circle_out[j]


\* ---- C20
\* C20: whatever the pkl and cloud flags, the frame load_dataframe returns is
\* the one designated by name; a call with name = 'test' never returns the
\* train data
C20_ReturnsNamedFrame ==
  (load_out # NoCall /\ load_out.status = "ok") =>
    load_out.frame.of = load_call.name


\* ---- C21
ReadCsv == load_out # NoCall /\ load_out.status = "ok" /\ ~load_call.cloud /\ ~load_call.pkl
StrictlyBetween(v, lo, hi) == lo < v /\ v < hi
Numeric == {"passenger_count", "fare_amount", "pickup_latitude", "pickup_longitude",
            "dropoff_latitude", "dropoff_longitude"}
SameValues(a, b) == \A c \in Numeric : a[c] = b[c]

\* C21: when load_dataframe reads a csv whose name contains 'train', every
\* returned record lies strictly inside the bounds of passenger_count,
\* fare_amount and the four coordinates, and a record with a value on a bound
\* is dropped; when the name does not contain 'train' every record is returned
C21_TrainRecordsInsideBounds ==
  ReadCsv =>
    LET csv == storage.raw[load_call.name].rows
        rows == load_out.frame.rows
    IN  IF contains_train(load_call.name)
        THEN /\ \A i \in DOMAIN rows :
                  /\ StrictlyBetween(rows[i].passenger_count, inf_passenger, sup_passenger)
                  /\ StrictlyBetween(rows[i].fare_amount, inf_fare, sup_fare)
                  /\ StrictlyBetween(rows[i].pickup_latitude, inf_lat, sup_lat)
                  /\ StrictlyBetween(rows[i].dropoff_latitude, inf_lat, sup_lat)
                  /\ StrictlyBetween(rows[i].pickup_longitude, inf_long, sup_long)
                  /\ StrictlyBetween(rows[i].dropoff_longitude, inf_long, sup_long)
                  /\ \E j \in DOMAIN csv : SameValues(csv[j], rows[i])
             /\ \A j \in DOMAIN csv :
                  csv[j] # InsideRow => \A i \in DOMAIN rows : ~SameValues(csv[j], rows[i])
        ELSE /\ Len(rows) = Len(csv)
             /\ \A i \in DOMAIN rows : SameValues(csv[i], rows[i])

\* a train csv whose last record has its dropoff latitude on sup_lat
C21_Witness ==
  /\ ReadCsv
  /\ load_call.name = "train_2015"
  /\ Len(storage.raw[load_call.name].rows) = MaxRows
  /\ storage.raw[load_call.name].rows[MaxRows].dropoff_latitude = sup_lat
  /\ Len(load_out.frame.rows) = MaxRows - 1


\* ---- C22
HolidaysBefore(i) == {j \in HolidayRows : j < i}
HolidaysAfter(i) == {j \in HolidayRows : j > i}
Latest(S) == CHOOSE j \in S : \A k \in S : k <= j
Earliest(S) == CHOOSE j \in S : \A k \in S : j <= k

DistanceFunctions ==
  {"nytf_geo.flying_distance_AB", "nytf_geo.L1_distance_AB", "NYCTF_geo.flying_distance_AB"}
EqualLatitude(c) == c.latitude_A = c.latitude_B

\* C23: no acos call of the distance functions raises a math domain error, on
\* any branch, the equal-latitude branch of L1_distance_AB included
C23_NoDomainError ==
  (geo_out # NoCall /\ geo_out.fn \in DistanceFunctions) => geo_out.status # "ValueError"

\* C24: with a recognised unit L1_distance_AB never divides by zero; for two
\* identical points it returns 0 whatever the rotation; and for two points of
\* equal latitude and no rotation it returns the distance along the longitude
C24_EqualLatitudeHandled ==
  ((Called("nytf_geo.L1_distance_AB") \/ Called("NYCTF_geo.L1_distance_AB"))
     /\ conv_k(geo_call.ang_unit) # Unbound) =>
    /\ geo_out.status # "ZeroDivisionError"
    /\ SamePoint(geo_call) => (geo_out.status = "ok" /\ geo_out.value = 0)
    /\ (EqualLatitude(geo_call) /\ geo_call.plane_rot_angle = 0 /\ geo_out.status = "ok") =>
         geo_out.value = flying_distance_AB(geo_call).value

\* what C24 says of nytf_geo.L1_distance_AB alone
C24_PackageOnly ==
  (Called("nytf_geo.L1_distance_AB") /\ conv_k(geo_call.ang_unit) # Unbound) =>
    /\ geo_out.status # "ZeroDivisionError"
    /\ SamePoint(geo_call) => (geo_out.status = "ok" /\ geo_out.value = 0)
    /\ (EqualLatitude(geo_call) /\ geo_call.plane_rot_angle = 0 /\ geo_out.status = "ok") =>
         geo_out.value = flying_distance_AB(geo_call).value


\* ---- C25
TransformReturned == lastOp = "transform" /\ out.status = "ok"
FeatureNamesOut ==
  {"holiday_score", "next_holiday_dist", "next_holiday_score",
   "prev_holiday_dist", "prev_holiday_score"}
\* the five features of a record of the given date, taken alone
OwnFeatures(date) ==
  holiday_features(holiday_scores, holiday_info_row(date, days_ref_df))

\* C25: transform returns one row per record, in the input order, and the five
\* features of a row are those of the row's own date, whatever the index labels
C25_RowsKeepTheirFeatures ==
  TransformReturned =>
    /\ Len(out.rows) = Len(test_X)
    /\ \A i \in DOMAIN test_X :
         /\ out.rows[i].date = test_X[i].date
         /\ \A f \in FeatureNamesOut : out.rows[i][f] = OwnFeatures(test_X[i].date)[f]


\* ---- C26
FrameReturned == lastOp \in {"transform", "fit_transform"} /\ out.status = "ok"
NonNegative(v) == Len(v) = 1 /\ v[1] >= 0

\* C26: for every record whose holiday pointers are defined the two distances
\* are at least 0: the noon of the previous holiday is not after the record and
\* the noon of the next holiday is not before it
C26_DistancesNonNegative ==
  FrameReturned =>
    \A i \in DOMAIN out.rows :
      /\ holiday_info[i].prev_holiday_date # NaT => NonNegative(out.rows[i].prev_holiday_dist)
      /\ holiday_info[i].next_holiday_date # NaT => NonNegative(out.rows[i].next_holiday_dist)

\* ---- C27
InsideSpan(date) == \E k \in DOMAIN days_ref_df : days_ref_df[k].date = normalize(date)

\* C27: transform does not fail on a record whose date is outside the fitted
\* span, each of its five features is a missing value, and the records inside
\* the span keep their own features
C27_OutsideSpanMissing ==
  (lastOp = "transform" /\ days_ref_df # Unset) =>
    /\ out.status = "ok"
    /\ \A i \in DOMAIN out.rows : \A f \in FeatureNamesOut :
         IF InsideSpan(test_X[i].date)
         THEN out.rows[i][f] = OwnFeatures(test_X[i].date)[f]
         ELSE out.rows[i][f] = NaN

\* ---- C28
\* C28: transform returns a frame only after a fit or fit_transform that
\* completed, it raises on an extractor never fitted or whose fit failed, and
\* the frame it returns is computed from the tables of the latest fit
C28_TransformOnlyAfterFit ==
  /\ (lastOp = "transform" /\ out.status = "ok") =>
       LET r == fit_result(holidays, train_X)
       IN  /\ r.error = "none"
           /\ days_ref_df = r.days_ref_df
           /\ holiday_scores = r.holiday_scores
           /\ out.rows = transform_result(test_X, r.days_ref_df, r.holiday_scores).out.rows
  /\ (lastOp = "transform" /\ out.status # "ok") => out.rows = <<>>


\* ---- C29
Accepted(data) ==
  \/ data.kind \in {"Series", "DataFrame"}
  \/ data.kind = "ndarray" /\ Len(data.shape) \in {1, 2}

\* C29: decompose_data_to_arrays_list raises ValueError for every input that is
\* not a Series, a DataFrame or an array of 1 or 2 dimensions; for an accepted
\* input it returns one array per column name, each as long as the index
C29_ValueErrorOrColumns ==
  decompose_out # NoCall =>
    IF Accepted(decompose_data)
    THEN /\ decompose_out.status = "ok"
         /\ Len(decompose_out.data) = Len(decompose_out.col_names)
         /\ \A c \in DOMAIN decompose_out.data :
              Len(decompose_out.data[c]) = Len(decompose_out.index)
    ELSE decompose_out.status = "ValueError"

====
